---- MODULE Spec2Model ----
(***************************************************************************)
(* Model of ecowitt2mqtt/data.py: the key normalizer (de_unit_key), the    *)
(* data-type resolver (get_data_type), the per-instance calculator cache   *)
(* (DataProcessor._get_calculator_func) and the payload translation        *)
(* (DataProcessor.generate_data).                                          *)
(*                                                                         *)
(* Keys and raw values are strings.  A Python value is a record            *)
(* [t, v, func, kwargs, args]: t = "str" (v the string), t = "float" (v    *)
(* the canonical decimal of the number) or t = "output" (the result of    *)
(* applying calculator func, bound to kwargs, to args).  The calculators   *)
(* live in ecowitt2mqtt.util and are kept symbolic: pure and total.        *)
(***************************************************************************)
EXTENDS Integers, Sequences, FiniteSets, TLC

VARIABLES
    payload,            \* self._payload: sequence of <<key, raw string>>, distinct keys
    input_unit_system,  \* self._input_unit_system
    output_unit_system, \* self._output_unit_system
    calculator_funcs,   \* self._calculator_funcs: data type -> bound calculator
    n_calls,            \* generate_data invocations made on this instance
    rebuilt,            \* TRUE once a second DataProcessor was built from the payload
    lookups,            \* this instance's _get_calculator_func calls, in order
    calls,              \* calculator invocations of the last generate_data
    translated_data,    \* local translated_data at the end of the last generate_data
    calculated_data,    \* local calculated_data at the end of the last generate_data
    outcome,            \* how the last generate_data ended: a mapping or an error
    first_outcome,      \* how the first generate_data on this payload ended
    arg,                \* argument of the key function under evaluation
    ret                 \* its result

vars == <<payload, input_unit_system, output_unit_system, calculator_funcs, n_calls,
          rebuilt, lookups, calls, translated_data, calculated_data, outcome,
          first_outcome, arg, ret>>

processor_vars == <<payload, input_unit_system, output_unit_system, calculator_funcs,
                    n_calls, rebuilt, lookups, calls, translated_data,
                    calculated_data, outcome, first_outcome>>

key_vars == <<arg, ret>>

----------------------------------------------------------------------------
(* Bounds *)

MaxLen == 2     \* entries of a payload drawn from Keys
MaxCalls == 2   \* generate_data invocations on one instance

----------------------------------------------------------------------------
(* Python strings and sequences *)

None == "<None>"

ToSet(seq) == {seq[i] : i \in DOMAIN seq}

\* str.endswith(suffix)
EndsWith(s, suffix) ==
    /\ Len(s) >= Len(suffix)
    /\ SubSeq(s, Len(s) - Len(suffix) + 1, Len(s)) = suffix

\* sub in s, for strings
Contains(sub, s) ==
    \E i \in 1..(Len(s) - Len(sub) + 1) : SubSeq(s, i, i + Len(sub) - 1) = sub

\* s[:-n]
DropLast(s, n) == SubSeq(s, 1, Len(s) - n)

----------------------------------------------------------------------------
(* ecowitt2mqtt.const *)

DATA_POINT_DEWPOINT == "dewpoint"
DATA_POINT_FEELSLIKE == "feelslike"
DATA_POINT_GLOB_BAROM == "barom"
DATA_POINT_GLOB_BATT == "batt"
DATA_POINT_GLOB_RAIN == "rain"
DATA_POINT_GLOB_TEMP == "temp"
DATA_POINT_GLOB_WIND == "wind"
DATA_POINT_HEATINDEX == "heatindex"
DATA_POINT_HUMIDITY == "humidity"
DATA_POINT_TEMPF == "tempf"
DATA_POINT_WINDCHILL == "windchill"
DATA_POINT_WINDSPEEDMPH == "windspeedmph"
UNIT_SYSTEM_IMPERIAL == "imperial"
UNIT_SYSTEM_METRIC == "metric"

----------------------------------------------------------------------------
(* Module constants of data.py *)

DEFAULT_KEYS_TO_IGNORE_Mutant == <<"PASSKEY", "dateutc", "freq", "stationtype">>

DEFAULT_KEYS_TO_IGNORE == <<"PASSKEY", "dateutc", "freq", "model", "stationtype">>

\* An insertion-ordered dict: <<data type, calculator>> in declaration order.
CALCULATOR_FUNCTION_MAP ==
    << <<DATA_POINT_DEWPOINT, "calculate_dew_point">>,
       <<DATA_POINT_FEELSLIKE, "calculate_feels_like">>,
       <<DATA_POINT_GLOB_BAROM, "calculate_pressure">>,
       <<DATA_POINT_GLOB_BATT, "calculate_binary_battery">>,
       <<DATA_POINT_GLOB_RAIN, "calculate_rain_volume">>,
       <<DATA_POINT_GLOB_TEMP, "calculate_temperature">>,
       <<DATA_POINT_GLOB_WIND, "calculate_wind_speed">>,
       <<DATA_POINT_HEATINDEX, "calculate_heat_index">>,
       <<DATA_POINT_WINDCHILL, "calculate_wind_chill">> >>

\* list(CALCULATOR_FUNCTION_MAP): its keys in declaration order
MapKeys == [i \in DOMAIN CALCULATOR_FUNCTION_MAP |-> CALCULATOR_FUNCTION_MAP[i][1]]

\* CALCULATOR_FUNCTION_MAP[data_type]
MapGet(data_type) ==
    LET i == CHOOSE j \in DOMAIN CALCULATOR_FUNCTION_MAP :
                 CALCULATOR_FUNCTION_MAP[j][1] = data_type
    IN  CALCULATOR_FUNCTION_MAP[i][2]

DEW_POINT_KEYS == <<DATA_POINT_TEMPF, DATA_POINT_HUMIDITY>>
FEELS_LIKE_KEYS == <<DATA_POINT_TEMPF, DATA_POINT_HUMIDITY, DATA_POINT_WINDSPEEDMPH>>
HEAT_INDEX_KEYS == <<DATA_POINT_TEMPF, DATA_POINT_HUMIDITY>>
WIND_CHILL_KEYS == <<DATA_POINT_TEMPF, DATA_POINT_WINDSPEEDMPH>>

----------------------------------------------------------------------------
(* de_unit_key *)

de_unit_key(key) ==
    IF EndsWith(key, "f") THEN DropLast(key, 1)
    ELSE IF EndsWith(key, "in") THEN DropLast(key, 2)
    ELSE IF EndsWith(key, "mph") THEN DropLast(key, 3)
    ELSE key

----------------------------------------------------------------------------
(* get_data_type *)

\* Without the exact-match test of lines 69-70.
get_data_type_Mutant(key) ==
    LET matches == SelectSeq(MapKeys, LAMBDA k : Contains(k, key))
    IN  IF matches # <<>> THEN matches[1] ELSE None

get_data_type(key) ==
    IF key \in ToSet(MapKeys) THEN key
    ELSE LET matches == SelectSeq(MapKeys, LAMBDA k : Contains(k, key))
         IN  IF matches # <<>> THEN matches[1] ELSE None

----------------------------------------------------------------------------
(* Python values *)

Str(s) == [t |-> "str", v |-> s, func |-> "", kwargs |-> {}, args |-> <<>>]
Float(d) == [t |-> "float", v |-> d, func |-> "", kwargs |-> {}, args |-> <<>>]
Output(calculator, args) ==
    [t |-> "output", v |-> "", func |-> calculator.func, kwargs |-> calculator.kwargs,
     args |-> args]

Digits == {"0", "1", "2", "3", "4", "5", "6", "7", "8", "9"}

IsDigits(s) == \A i \in 1..Len(s) : SubSeq(s, i, i) \in Digits

RECURSIVE StripLeadingZeros(_)
StripLeadingZeros(s) ==
    IF Len(s) > 1 /\ SubSeq(s, 1, 1) = "0" THEN StripLeadingZeros(SubSeq(s, 2, Len(s)))
    ELSE s

RECURSIVE StripTrailingZeros(_)
StripTrailingZeros(s) ==
    IF Len(s) > 1 /\ EndsWith(s, "0") THEN StripTrailingZeros(DropLast(s, 1)) ELSE s

\* The sign, integer part and fraction part of a decimal literal.
Sign(s) == IF Len(s) > 0 /\ SubSeq(s, 1, 1) \in {"-", "+"} THEN SubSeq(s, 1, 1) ELSE ""
Unsigned(s) == SubSeq(s, Len(Sign(s)) + 1, Len(s))
DotAt(s) == {i \in 1..Len(s) : SubSeq(s, i, i) = "."}
IntPart(s) == IF DotAt(s) = {} THEN s ELSE SubSeq(s, 1, (CHOOSE i \in DotAt(s) : TRUE) - 1)
FracPart(s) ==
    IF DotAt(s) = {} THEN "" ELSE SubSeq(s, (CHOOSE i \in DotAt(s) : TRUE) + 1, Len(s))

\* float(value) succeeds: the decimal literals [sign] digits [. digits] of Python's
\* float grammar (the raw values drawn below are such literals or have letters).
IsFloatLiteral(s) ==
    LET u == Unsigned(s)
    IN  /\ Cardinality(DotAt(u)) <= 1
        /\ IsDigits(IntPart(u))
        /\ IsDigits(FracPart(u))
        /\ Len(IntPart(u)) + Len(FracPart(u)) > 0

\* The number float(value) denotes, as a canonical decimal: "54", "54.0" and
\* "054.00" are the same float, "-0" and "0" compare equal.
FloatOf(s) ==
    LET u == Unsigned(s)
        ip == StripLeadingZeros(IF IntPart(u) = "" THEN "0" ELSE IntPart(u))
        fp == StripTrailingZeros(IF FracPart(u) = "" THEN "0" ELSE FracPart(u))
        neg == Sign(s) = "-" /\ ~(ip = "0" /\ fp = "0")
    IN  (IF neg THEN "-" ELSE "") \o ip \o "." \o fp

\* try: value = float(value) / except ValueError: pass
Coerce(value) == IF IsFloatLiteral(value) THEN Float(FloatOf(value)) ELSE Str(value)

----------------------------------------------------------------------------
(* Dicts *)

EmptyDict == <<>>

DictSet(d, k, x) == [y \in DOMAIN d \cup {k} |-> IF y = k THEN x ELSE d[y]]

\* {**a, **b}
DictMerge(a, b) == [y \in DOMAIN a \cup DOMAIN b |-> IF y \in DOMAIN b THEN b[y] ELSE a[y]]

\* The payload is an insertion-ordered dict of raw strings.
PayloadKeys(p) == {p[i][1] : i \in DOMAIN p}
PayloadGet(p, k) == p[CHOOSE i \in DOMAIN p : p[i][1] = k][2]

----------------------------------------------------------------------------
(* ecowitt2mqtt.util: the parameters each calculator declares *)

FuncParams(func) ==
    IF func = "calculate_binary_battery" THEN {"value"}
    ELSE IF func \in {"calculate_dew_point", "calculate_heat_index"}
    THEN {"temperature", "humidity", "input_unit_system", "output_unit_system"}
    ELSE IF func = "calculate_feels_like"
    THEN {"temperature", "humidity", "wind_speed", "input_unit_system",
          "output_unit_system"}
    ELSE IF func = "calculate_wind_chill"
    THEN {"temperature", "wind_speed", "input_unit_system", "output_unit_system"}
    ELSE {"value", "input_unit_system", "output_unit_system"}

----------------------------------------------------------------------------
(* DataProcessor._get_calculator_func *)

\* No calculator: the None of line 102.
NoCalculator == [func |-> None, kwargs |-> {}, id |-> 0]

\* partial(func, **kwargs): a new object, told apart by the serial number id.
Partial(self, func, serial) ==
    [func |-> func,
     kwargs |-> {<<"input_unit_system", self.input_unit_system>> :
                     x \in {"input_unit_system"} \cap FuncParams(func)}
                \cup {<<"output_unit_system", self.output_unit_system>> :
                     x \in {"output_unit_system"} \cap FuncParams(func)},
     id |-> serial]

\* One call: the cache after it, the calculator returned, and whether the
\* signature was inspected (lines 110-116 ran).
\* Without the cache test of lines 104-105.
GetCalculatorFunc_Rebind(self, funcs, key, serial) ==
    LET data_type == get_data_type(key)
    IN  IF data_type = None
        THEN [funcs |-> funcs, ret |-> NoCalculator, data_type |-> None,
              inspected |-> FALSE]
        ELSE LET bound == Partial(self, MapGet(data_type), serial)
             IN  [funcs |-> DictSet(funcs, data_type, bound), ret |-> bound,
                  data_type |-> data_type, inspected |-> TRUE]

\* A cache hit hands back the calculator with the unit systems not bound.
GetCalculatorFunc_Unbound(self, funcs, key, serial) ==
    LET data_type == get_data_type(key)
    IN  IF data_type = None
        THEN [funcs |-> funcs, ret |-> NoCalculator, data_type |-> None,
              inspected |-> FALSE]
        ELSE IF data_type \in DOMAIN funcs
        THEN [funcs |-> funcs, ret |-> [funcs[data_type] EXCEPT !.kwargs = {}],
              data_type |-> data_type, inspected |-> FALSE]
        ELSE LET bound == Partial(self, MapGet(data_type), serial)
             IN  [funcs |-> DictSet(funcs, data_type, bound), ret |-> bound,
                  data_type |-> data_type, inspected |-> TRUE]

GetCalculatorFunc(self, funcs, key, serial) ==
    LET data_type == get_data_type(key)
    IN  IF data_type = None
        THEN [funcs |-> funcs, ret |-> NoCalculator, data_type |-> None,
              inspected |-> FALSE]
        ELSE IF data_type \in DOMAIN funcs
        THEN [funcs |-> funcs, ret |-> funcs[data_type], data_type |-> data_type,
              inspected |-> FALSE]
        ELSE LET bound == Partial(self, MapGet(data_type), serial)
             IN  [funcs |-> DictSet(funcs, data_type, bound), ret |-> bound,
                  data_type |-> data_type, inspected |-> TRUE]

\* The record the call leaves in the instance's lookup log.
Lookup(site, key, got) ==
    [site |-> site, key |-> key, data_type |-> got.data_type,
     inspected |-> got.inspected, ret |-> got.ret]

----------------------------------------------------------------------------
(* DataProcessor.generate_data *)

\* The list of lines 140-145: <<target key, input keys>> in evaluation order.
DERIVED_METRICS ==
    << <<DATA_POINT_DEWPOINT, DEW_POINT_KEYS>>,
       <<DATA_POINT_FEELSLIKE, FEELS_LIKE_KEYS>>,
       <<DATA_POINT_HEATINDEX, HEAT_INDEX_KEYS>>,
       <<DATA_POINT_WINDCHILL, WIND_CHILL_KEYS>> >>

\* The state generate_data works on: the instance's cache and lookup log, the
\* locals translated_data and calculated_data, the calculator invocations made,
\* and the key of a raised KeyError (None while none was raised).
Begin(funcs, log) ==
    [funcs |-> funcs, lookups |-> log, calls |-> <<>>, translated |-> EmptyDict,
     calculated |-> EmptyDict, error |-> None]

Call(site, target_key, calculator, args) ==
    [site |-> site, target |-> target_key, func |-> calculator.func,
     kwargs |-> calculator.kwargs, args |-> args]

\* One iteration of the loop of lines 122-137 whose calculated key is kept
\* as it came, not normalized.
SingleValueStep_NoDeUnit(self, st, target_key, raw) ==
    IF target_key \in ToSet(DEFAULT_KEYS_TO_IGNORE) THEN st
    ELSE LET value == Coerce(raw)
             got == GetCalculatorFunc(self, st.funcs, target_key, Len(st.lookups) + 1)
             log == Append(st.lookups, Lookup("single", target_key, got))
         IN  IF got.ret # NoCalculator
             THEN [st EXCEPT !.funcs = got.funcs, !.lookups = log,
                             !.calls = Append(@, Call("single", target_key, got.ret,
                                                      <<value>>)),
                             !.translated = DictSet(@, target_key,
                                                    Output(got.ret, <<value>>))]
             ELSE [st EXCEPT !.funcs = got.funcs, !.lookups = log,
                             !.translated = DictSet(@, target_key, value)]

\* One iteration of the loop of lines 122-137 that normalizes every key it
\* emits, matched or not.
SingleValueStep_DeUnitAll(self, st, target_key, raw) ==
    IF target_key \in ToSet(DEFAULT_KEYS_TO_IGNORE) THEN st
    ELSE LET value == Coerce(raw)
             got == GetCalculatorFunc(self, st.funcs, target_key, Len(st.lookups) + 1)
             log == Append(st.lookups, Lookup("single", target_key, got))
         IN  IF got.ret # NoCalculator
             THEN [st EXCEPT !.funcs = got.funcs, !.lookups = log,
                             !.calls = Append(@, Call("single", target_key, got.ret,
                                                      <<value>>)),
                             !.translated = DictSet(@, de_unit_key(target_key),
                                                    Output(got.ret, <<value>>))]
             ELSE [st EXCEPT !.funcs = got.funcs, !.lookups = log,
                             !.translated = DictSet(@, de_unit_key(target_key), value)]

\* One iteration of the loop of lines 122-137.
SingleValueStep(self, st, target_key, raw) ==
    IF target_key \in ToSet(DEFAULT_KEYS_TO_IGNORE) THEN st
    ELSE LET value == Coerce(raw)
             got == GetCalculatorFunc(self, st.funcs, target_key, Len(st.lookups) + 1)
             log == Append(st.lookups, Lookup("single", target_key, got))
         IN  IF got.ret # NoCalculator
             THEN [st EXCEPT !.funcs = got.funcs, !.lookups = log,
                             !.calls = Append(@, Call("single", target_key, got.ret,
                                                      <<value>>)),
                             !.translated = DictSet(@, de_unit_key(target_key),
                                                    Output(got.ret, <<value>>))]
             ELSE [st EXCEPT !.funcs = got.funcs, !.lookups = log,
                             !.translated = DictSet(@, target_key, value)]

RECURSIVE SingleValuePass(_, _, _)
SingleValuePass(self, st, i) ==
    IF i > Len(self.payload) THEN st
    ELSE SingleValuePass(self,
                         SingleValueStep(self, st, self.payload[i][1], self.payload[i][2]),
                         i + 1)

\* The availability test of line 146.
\* With any() for all().
InputsAvailable_Any(st, input_keys) ==
    \E n \in DOMAIN input_keys : input_keys[n] \in DOMAIN st.translated

InputsAvailable(st, input_keys) ==
    \A n \in DOMAIN input_keys : input_keys[n] \in DOMAIN st.translated

\* [self._payload[k] for k in input_keys]: the first key the payload lacks
\* raises KeyError.
MissingKeys(self, input_keys) ==
    {n \in DOMAIN input_keys : input_keys[n] \notin PayloadKeys(self.payload)}

\* The arguments of line 151.
\* Reading the translated values (and so never missing a key).
DerivedArgs_Translated(self, st, input_keys) ==
    [n \in DOMAIN input_keys |-> st.translated[input_keys[n]]]

DerivedArgs(self, st, input_keys) ==
    [n \in DOMAIN input_keys |-> Str(PayloadGet(self.payload, input_keys[n]))]

\* One iteration of the loop of lines 140-152.
DerivedStep(self, st, target_key, input_keys) ==
    IF ~InputsAvailable(st, input_keys) THEN st
    ELSE LET got == GetCalculatorFunc(self, st.funcs, target_key, Len(st.lookups) + 1)
             log == Append(st.lookups, Lookup("derived", target_key, got))
             bound == [st EXCEPT !.funcs = got.funcs, !.lookups = log]
         IN  IF got.ret = NoCalculator THEN bound
             ELSE IF MissingKeys(self, input_keys) # {}
             THEN [bound EXCEPT !.error =
                      input_keys[CHOOSE n \in MissingKeys(self, input_keys) :
                                    \A m \in MissingKeys(self, input_keys) : n <= m]]
             ELSE LET args == DerivedArgs(self, st, input_keys)
                  IN  [bound EXCEPT !.calls = Append(@, Call("derived", target_key,
                                                             got.ret, args)),
                                    !.calculated = DictSet(@, target_key,
                                                           Output(got.ret, args))]

RECURSIVE DerivedPass(_, _, _)
DerivedPass(self, st, j) ==
    IF j > Len(DERIVED_METRICS) \/ st.error # None THEN st
    ELSE DerivedPass(self,
                     DerivedStep(self, st, DERIVED_METRICS[j][1], DERIVED_METRICS[j][2]),
                     j + 1)

\* How an invocation ends: the mapping of line 154, or the KeyError of line 151.
NotRun == [status |-> "none", value |-> EmptyDict, error |-> None]
Returned(mapping) == [status |-> "returned", value |-> mapping, error |-> None]
Raised(key) == [status |-> "KeyError", value |-> EmptyDict, error |-> key]

Outcome(st) ==
    IF st.error # None THEN Raised(st.error)
    ELSE Returned(DictMerge(st.translated, st.calculated))

\* The whole method, from the instance's state before the call.
generate_data(self, funcs, log) ==
    DerivedPass(self, SingleValuePass(self, Begin(funcs, log), 1), 1)

----------------------------------------------------------------------------
(* Inputs *)

UnitSystems == {UNIT_SYSTEM_IMPERIAL, UNIT_SYSTEM_METRIC}

\* Raw keys a payload is drawn from: ignored keys, keys of the registered
\* families with and without a unit suffix, keys no data type matches, and
\* keys whose normalized form is another key of the set.
Keys ==
    {"model", "tempf", "temp", "humidityin", "baro", "baromph", "windchill",
     "rainratein", "batt1"}

\* Raw values: a decimal literal that is not its own canonical form, and a
\* string float() rejects.
Values == {"54.00", "V1.6.8"}

\* The payloads built from the entries: every order of every selection of at
\* most n entries with distinct keys.
RECURSIVE PayloadsOf(_, _)
PayloadsOf(entries, n) ==
    IF n = 0 THEN {<<>>}
    ELSE LET shorter == PayloadsOf(entries, n - 1)
         IN  shorter \cup
             UNION {{Append(p, e) : e \in {x \in entries : x[1] \notin PayloadKeys(p)}} :
                    p \in {q \in shorter : Len(q) = n - 1}}

\* A station's report, followed by keys that normalize to the derived metrics'
\* input keys and a key that is itself a derived metric's identifier.
StationReport ==
    << <<"PASSKEY", "AB">>, <<"tempf", "77.4">>, <<"humidity", "54">>,
       <<"windspeedmph", "4.0">>, <<"stationtype", "GW1000_V1.6.8">>,
       <<"tempff", "68">>, <<"windspeedmphf", "9.5">>, <<"dewpoint", "60.1">> >>

RECURSIVE Reverse(_)
Reverse(seq) == IF seq = <<>> THEN <<>> ELSE Append(Reverse(Tail(seq)), Head(seq))

\* Every selection of the report's entries, in the report's order and reversed.
StationPayloads ==
    LET Pick(chosen) == SelectSeq(StationReport, LAMBDA e : e \in chosen)
    IN  UNION {{Pick(chosen), Reverse(Pick(chosen))} : chosen \in SUBSET ToSet(StationReport)}

Payloads == PayloadsOf(Keys \X Values, MaxLen) \cup StationPayloads

KeyPrefixes == {"", "daily", "wind"}
KeyStems ==
    ToSet(MapKeys) \cup ToSet(DEFAULT_KEYS_TO_IGNORE)
        \cup {"humidity", "baro", "ra", "te", "wh65", "speed", "solarradiation", "x"}
KeySuffixes == {"", "f", "in", "mph", "1"}

\* Keys the key functions are evaluated on.
KeyUniverse == {p \o s \o x : p \in KeyPrefixes, s \in KeyStems, x \in KeySuffixes}

----------------------------------------------------------------------------
(* The processor: DataProcessor over one payload *)

Self == [payload |-> payload, input_unit_system |-> input_unit_system,
         output_unit_system |-> output_unit_system]

\* DataProcessor.__init__ on a payload and a unit-system pair.
Init ==
    /\ payload \in Payloads
    /\ input_unit_system \in UnitSystems
    /\ output_unit_system \in UnitSystems
    /\ calculator_funcs = EmptyDict
    /\ n_calls = 0
    /\ rebuilt = FALSE
    /\ lookups = <<>>
    /\ calls = <<>>
    /\ translated_data = EmptyDict
    /\ calculated_data = EmptyDict
    /\ outcome = NotRun
    /\ first_outcome = NotRun
    /\ arg = None
    /\ ret = [fn |-> None, val |-> None]

\* generate_data() on the instance.
GenerateData ==
    /\ n_calls < MaxCalls
    /\ \E st \in {generate_data(Self, calculator_funcs, lookups)} :
           /\ calculator_funcs' = st.funcs
           /\ lookups' = st.lookups
           /\ calls' = st.calls
           /\ translated_data' = st.translated
           /\ calculated_data' = st.calculated
           /\ outcome' = Outcome(st)
           /\ first_outcome' = IF first_outcome = NotRun THEN Outcome(st)
                                                         ELSE first_outcome
    /\ n_calls' = n_calls + 1
    /\ UNCHANGED <<payload, input_unit_system, output_unit_system, rebuilt, arg, ret>>

\* A fresh DataProcessor(payload, input_unit_system=..., output_unit_system=...)
\* replaces the used one.
NewProcessor ==
    /\ n_calls > 0
    /\ ~rebuilt
    /\ rebuilt' = TRUE
    /\ calculator_funcs' = EmptyDict
    /\ n_calls' = 0
    /\ lookups' = <<>>
    /\ calls' = <<>>
    /\ translated_data' = EmptyDict
    /\ calculated_data' = EmptyDict
    /\ outcome' = NotRun
    /\ UNCHANGED <<payload, input_unit_system, output_unit_system, first_outcome,
                   arg, ret>>

Next == GenerateData \/ NewProcessor

Spec == Init /\ [][Next]_vars

----------------------------------------------------------------------------
(* The key functions on their own *)

InitKey ==
    /\ arg \in KeyUniverse
    /\ ret = [fn |-> None, val |-> None]
    /\ payload = <<>>
    /\ input_unit_system = UNIT_SYSTEM_IMPERIAL
    /\ output_unit_system = UNIT_SYSTEM_IMPERIAL
    /\ calculator_funcs = EmptyDict
    /\ n_calls = 0
    /\ rebuilt = FALSE
    /\ lookups = <<>>
    /\ calls = <<>>
    /\ translated_data = EmptyDict
    /\ calculated_data = EmptyDict
    /\ outcome = NotRun
    /\ first_outcome = NotRun

CallGetDataType ==
    /\ ret' = [fn |-> "get_data_type", val |-> get_data_type(arg)]
    /\ UNCHANGED <<arg, processor_vars>>

CallDeUnitKey ==
    /\ ret' = [fn |-> "de_unit_key", val |-> de_unit_key(arg)]
    /\ UNCHANGED <<arg, processor_vars>>

NextKey == CallGetDataType \/ CallDeUnitKey

SpecKey == InitKey /\ [][NextKey]_vars

----------------------------------------------------------------------------
(* Vocabulary of the properties *)

\* The ignore set, the registry's declaration order and the derived metrics
\* with their required keys, as the specification states them.
IgnoreSet == {"PASSKEY", "dateutc", "freq", "model", "stationtype"}

RegistryOrder ==
    <<"dewpoint", "feelslike", "barom", "batt", "rain", "temp", "wind", "heatindex",
      "windchill">>

MetricOrder == <<"dewpoint", "feelslike", "heatindex", "windchill">>

RequiredKeys(metric) ==
    IF metric = "feelslike" THEN <<"tempf", "humidity", "windspeedmph">>
    ELSE IF metric = "windchill" THEN <<"tempf", "windspeedmph">>
    ELSE <<"tempf", "humidity">>

Ran == n_calls > 0
ReturnedMapping == outcome.status = "returned"

\* The non-ignored entries of the payload, and where each lands in the
\* translated mapping.
Kept == {i \in DOMAIN payload : payload[i][1] \notin IgnoreSet}
Resolves(key) == get_data_type(key) # None
Landing(key) == IF Resolves(key) THEN de_unit_key(key) ELSE key
LastLanding(key) ==
    CHOOSE i \in Kept : /\ Landing(payload[i][1]) = key
                        /\ \A j \in Kept : Landing(payload[j][1]) = key => j <= i

DerivedCalls == SelectSeq(calls, LAMBDA c : c.site = "derived")
DerivedLookups == {i \in DOMAIN lookups : lookups[i].site = "derived"}

\* The position of a metric in the fixed evaluation order.
Rank(metric) == CHOOSE n \in DOMAIN MetricOrder : MetricOrder[n] = metric

----------------------------------------------------------------------------
(* C1 *)

\* C1: whatever the payload, no key of the ignore set is a key of the mapping
\* generate_data returns: not as a raw key, not as the normalized form of
\* another raw key, not as a derived-metric key.
C1_IgnoredKeysNeverInOutput ==
    Ran => /\ DOMAIN outcome.value \cap IgnoreSet = {}
           /\ DOMAIN translated_data \cap IgnoreSet = {}
           /\ DOMAIN calculated_data \cap IgnoreSet = {}

\* A returned, non-empty mapping for a payload that holds an ignored key next
\* to a key that was normalized.
C1_Witness ==
    /\ ReturnedMapping
    /\ PayloadKeys(payload) \cap IgnoreSet # {}
    /\ \E i \in Kept : /\ Landing(payload[i][1]) # payload[i][1]
                       /\ Landing(payload[i][1]) \in DOMAIN outcome.value

----------------------------------------------------------------------------
(* C2 *)

IsStationExample ==
    /\ ToSet(payload) = {<<"PASSKEY", "AB">>, <<"tempf", "77.4">>, <<"humidity", "54">>,
                         <<"windspeedmph", "4.0">>}
    /\ input_unit_system = "imperial"
    /\ output_unit_system = "imperial"

\* C2: for the payload {PASSKEY, tempf, humidity, windspeedmph}, imperial in
\* and out, the returned mapping has temp, humidity and windspeed and each of
\* dewpoint, feelslike, heatindex and windchill, and has no PASSKEY.
C2_ExampleHasDerivedMetrics ==
    (Ran /\ IsStationExample) =>
        /\ ReturnedMapping
        /\ {"temp", "humidity", "windspeed", "dewpoint", "feelslike", "heatindex",
            "windchill"} \subseteq DOMAIN outcome.value
        /\ "PASSKEY" \notin DOMAIN outcome.value

\* What the code returns for that payload: the three translated keys only.
C2_CodeReturnsNoDerived ==
    (Ran /\ IsStationExample) =>
        /\ ReturnedMapping
        /\ DOMAIN outcome.value = {"temp", "humidity", "windspeed"}
        /\ calculated_data = EmptyDict
        /\ DerivedLookups = {}

C2_Witness == Ran /\ IsStationExample /\ payload[1][1] = "PASSKEY"

----------------------------------------------------------------------------
(* C3 *)

\* C3: a derived metric with a required key missing from the translated
\* mapping is skipped whole: its calculator is neither looked up nor invoked,
\* the derived pass adds no entry for it (the output has one only if the
\* single-value pass put it there), and skipping it raises nothing.
C3_MissingInputSkipsMetric ==
    Ran => \A n \in DOMAIN MetricOrder :
        LET metric == MetricOrder[n]
            missing == {k \in ToSet(RequiredKeys(metric)) : k \notin DOMAIN translated_data}
        IN  missing # {} =>
              /\ metric \notin DOMAIN calculated_data
              /\ \A i \in DerivedLookups : lookups[i].key # metric
              /\ \A i \in DOMAIN calls :
                    ~(calls[i].site = "derived" /\ calls[i].target = metric)
              /\ ReturnedMapping /\ metric \in DOMAIN outcome.value =>
                    /\ metric \in DOMAIN translated_data
                    /\ outcome.value[metric] = translated_data[metric]
              /\ ~ReturnedMapping =>
                    /\ lookups # <<>>
                    /\ lookups[Len(lookups)].site = "derived"
                    /\ lookups[Len(lookups)].key # metric

\* Dew point was computed while wind chill, lacking windspeedmph, was skipped.
C3_Witness ==
    /\ ReturnedMapping
    /\ "dewpoint" \in DOMAIN calculated_data
    /\ "windspeedmph" \notin DOMAIN translated_data
    /\ "windchill" \notin DOMAIN outcome.value

----------------------------------------------------------------------------
(* C4 *)

\* C4: on one instance every data type is bound at most once: a lookup
\* inspects the signature only if no earlier lookup resolved to its data type,
\* every later lookup of that data type returns the very calculator the first
\* one stored, and the cache still holds it.
C4_BoundAtMostOnce ==
    /\ \A i \in DOMAIN lookups :
          LET dt == lookups[i].data_type
              earlier == {j \in 1..(i - 1) : lookups[j].data_type = dt}
          IN  IF dt = None THEN lookups[i].ret = NoCalculator /\ ~lookups[i].inspected
              ELSE /\ lookups[i].inspected <=> earlier = {}
                   /\ \A j \in earlier : lookups[i].ret = lookups[j].ret
                   /\ dt \in DOMAIN calculator_funcs
                   /\ calculator_funcs[dt] = lookups[i].ret
    /\ DOMAIN calculator_funcs = {lookups[i].data_type : i \in DOMAIN lookups} \ {None}

\* One instance whose cache answered a lookup of the single-value pass and a
\* lookup of the derived pass for the same data type.
C4_Witness ==
    \E i, j \in DOMAIN lookups :
        /\ i < j
        /\ lookups[i].data_type = lookups[j].data_type
        /\ lookups[i].site = "single" /\ lookups[i].inspected
        /\ lookups[j].site = "derived" /\ ~lookups[j].inspected

----------------------------------------------------------------------------
(* C5 *)

\* C5: get_data_type(key) is key when key is a registered identifier, else
\* the first identifier, in declaration order, that is a substring of key,
\* else no match.
C5_ExactThenFirstSubstring ==
    ret.fn = "get_data_type" =>
        LET hits == {n \in DOMAIN RegistryOrder : Contains(RegistryOrder[n], arg)}
        IN  IF arg \in ToSet(RegistryOrder) THEN ret.val = arg
            ELSE IF hits # {}
            THEN \E n \in hits : /\ ret.val = RegistryOrder[n]
                                 /\ \A m \in hits : n <= m
            ELSE ret.val = None

\* windchill resolved to itself although wind, declared earlier, is a
\* substring of it.
C5_Witness ==
    /\ ret.fn = "get_data_type"
    /\ arg = "windchill"
    /\ Contains("wind", arg)
    /\ ret.val = "windchill"

----------------------------------------------------------------------------
(* C6 *)

Unresolved == {i \in Kept : ~Resolves(payload[i][1])}

\* A resolved key later in the payload that normalizes to the key at i.
Overwriters(i) ==
    {j \in Kept : /\ j > i
                  /\ Resolves(payload[j][1])
                  /\ de_unit_key(payload[j][1]) = payload[i][1]}

----------------------------------------------------------------------------
(* C7 *)

\* C7: generate_data always ends by returning a mapping, never in an error.
C7_NeverRaises == Ran => ReturnedMapping

\* The error the code does end in: the derived pass passes its availability
\* test on the translated mapping and then reads a key the payload lacks.
C7_RaisesOnlyKeyError ==
    (Ran /\ ~ReturnedMapping) =>
        /\ outcome.status = "KeyError"
        /\ outcome.error \in {"tempf", "humidity", "windspeedmph"}
        /\ outcome.error \in DOMAIN translated_data
        /\ outcome.error \notin PayloadKeys(payload)

C7_Witness == Ran /\ outcome.status = "KeyError"

----------------------------------------------------------------------------
(* C8 *)

\* C8: with the payload and the unit systems fixed, every invocation ends as
\* the first one did, the second on the same instance (its cache filled) and
\* the one on a fresh instance alike, and no step changes the payload.
C8_RepeatedInvocationsAgree ==
    [][/\ payload' = payload
       /\ outcome' # NotRun => outcome' = first_outcome']_vars

\* The second invocation on a second instance returned a mapping with a
\* calculator's output in it.
C8_Witness ==
    /\ rebuilt
    /\ n_calls = 2
    /\ ReturnedMapping
    /\ outcome = first_outcome
    /\ \E k \in DOMAIN outcome.value : outcome.value[k].kwargs # {}

----------------------------------------------------------------------------
(* C9 *)

\* C9 as stated: the translated mapping has one entry per non-ignored raw
\* key, so as many entries as the payload has non-ignored keys.
C9_OneEntryPerKeptKey ==
    Ran => /\ Cardinality(DOMAIN translated_data) = Cardinality(Kept)
           /\ \A i, j \in Kept :
                 i # j => Landing(payload[i][1]) # Landing(payload[j][1])

\* C9 as amended: the translated mapping has one entry per distinct landing key
\* (the normalized key of a resolved raw key, the key itself otherwise), at
\* most one per non-ignored raw key; raw keys that land on one key share its
\* entry, which holds what the last of them in payload order wrote.
C9_OneEntryPerLandingKey ==
    Ran => /\ DOMAIN translated_data = {Landing(payload[i][1]) : i \in Kept}
           /\ Cardinality(DOMAIN translated_data) <= Cardinality(Kept)
           /\ \A key \in DOMAIN translated_data :
                 LET i == LastLanding(key)
                 IN  translated_data[key].args
                        = IF Resolves(payload[i][1]) THEN <<Coerce(payload[i][2])>>
                                                     ELSE <<>>

\* Two kept raw keys, one normalized, landed on the same key.
C9_Witness ==
    /\ Ran
    /\ \E i, j \in Kept :
          /\ i # j
          /\ Landing(payload[i][1]) = Landing(payload[j][1])
          /\ de_unit_key(payload[i][1]) # payload[i][1]
    /\ Cardinality(DOMAIN translated_data) < Cardinality(Kept)

----------------------------------------------------------------------------
(* C10 *)

\* The derived calls are in the fixed order and take the raw payload values
\* of the metric's required keys, in the declared order.
DerivedCallsInOrderOnRawValues ==
    /\ \A a, b \in DOMAIN DerivedCalls :
          a < b => Rank(DerivedCalls[a].target) < Rank(DerivedCalls[b].target)
    /\ \A a \in DOMAIN DerivedCalls :
          LET c == DerivedCalls[a]
              keys == RequiredKeys(c.target)
          IN  /\ Len(c.args) = Len(keys)
              /\ \A n \in DOMAIN keys :
                    /\ keys[n] \in PayloadKeys(payload)
                    /\ c.args[n] = Str(PayloadGet(payload, keys[n]))
              /\ calculated_data[c.target].args = c.args

\* C10: the metrics are evaluated in the fixed order, each computed metric is
\* called with the raw payload values of its required keys in declared order,
\* and each raw-payload lookup of a metric that passed the availability test
\* is for a key the raw payload has.
C10_DerivedLookupsFindTheirKeys ==
    Ran => /\ DerivedCallsInOrderOnRawValues
           /\ \A i \in DerivedLookups :
                 \A k \in ToSet(RequiredKeys(lookups[i].key)) :
                     k \in PayloadKeys(payload)

\* What holds of the code: order and raw arguments of the calls it completes.
C10_CompletedCallsUseRawValues == Ran => DerivedCallsInOrderOnRawValues

\* All four metrics were computed from a payload whose raw order is not the
\* evaluation order's.
C10_Witness ==
    /\ ReturnedMapping
    /\ Len(DerivedCalls) = 4
    /\ payload[1][1] = "dewpoint"

====
